---- MODULE Spec2Model ----
(***************************************************************************)
(* A model of bullsat::Solver (src/bullsat.hpp): a CDCL SAT solver with    *)
(* two watched literals, 1-UIP conflict analysis and backjumping.          *)
(*                                                                         *)
(* Conventions.  C++ containers are 0-indexed and TLA+ sequences are       *)
(* 1-indexed: element i of a vector is element i+1 of the sequence.        *)
(* A CRef (shared_ptr<Clause>) is the index of the clause object in the    *)
(* sequence `clauses`; the clause object is the sequence of literals       *)
(* stored there, permuted in place by propagate.                           *)
(* std::nullopt is NoLevel in `levels` and NoReason in `reasons`.          *)
(***************************************************************************)
EXTENDS Integers, Sequences, FiniteSets, TLC

\* ---------------------------------------------------------------- bounds
\* Variables x0 .. x(NumVars-1) may be mentioned by the caller's clauses.
NumVars == 2
\* In the exhaustive part of the inputs the caller hands over at most
\* MaxClauses clauses.
MaxClauses == 1

\* ------------------------------------------------------- optional values
NoLevel == -1
NoReason == 0

\* ------------------------------------------------------------- struct Lit
Lit(v, positive) == IF positive THEN 2 * v ELSE 2 * v + 1
neg(x) == x % 2 = 1
pos(x) == ~neg(x)
var(x) == x \div 2
vidx(x) == var(x)
lidx(x) == x
\* operator~ : q.x ^= 1
Not(p) == IF p % 2 = 0 THEN p + 1 ELSE p - 1

Lits == 0 .. (2 * NumVars - 1)

\* std::swap of two positions (1-based) of a sequence
swap(seq, i, j) == [seq EXCEPT ![i] = seq[j], ![j] = seq[i]]

\* ---------------------------------------------------------------- state
VARIABLES
  ndebug,          \* the build: TRUE when assert() is compiled out (-DNDEBUG)
  todo,            \* the clauses the caller has still to pass to add_clause
  added,           \* history: the clauses passed to add_clause so far
  assings,         \* std::vector<bool> assings
  levels,          \* std::vector<std::optional<int>> levels
  reasons,         \* std::vector<std::optional<CRef>> reasons
  watchers,        \* std::vector<std::vector<CRef>> watchers
  clauses,         \* the clause objects, in the order of the vector clauses
  learnts,         \* std::vector<CRef> learnts
  que,             \* std::deque<Lit> que (the trail)
  que_head,        \* size_t que_head (the propagation cursor)
  pc,              \* where the caller / solve() stands
  call,            \* the method of Solver the caller called last
  saved,           \* history: a Solver of before, to compare with (NoSnapshot)
  result,          \* the value solve() returned, "none" before it returns
  conflict,        \* solve(): the CRef propagate returned, NoReason for nullopt
  learnt_clause,   \* solve(): the clause analyze returned
  back_jump_level, \* solve(): the level analyze returned
  decided,         \* history: decided[i] iff new_decision pushed que[i]
  held             \* history: the literal pushed last, of each variable

vars == <<ndebug, todo, added, assings, levels, reasons, watchers, clauses,
          learnts, que, que_head, pc, call, saved, result, conflict,
          learnt_clause, back_jump_level, decided, held>>

\* The Solver object as one value; `fault` records that the call did not
\* return normally: "abort" (a failed assert or an uncaught exception),
\* "ub" (an access outside a container: undefined behaviour) or "hang".
Self ==
  [assings |-> assings, levels |-> levels, reasons |-> reasons,
   watchers |-> watchers, clauses |-> clauses, learnts |-> learnts,
   que |-> que, que_head |-> que_head, fault |-> "none"]

Fault(s, kind) == [s EXCEPT !.fault = kind]

\* Solver::Solver(variable_num)
Solver(variable_num) ==
  [assings |-> [v \in 1 .. variable_num |-> FALSE],
   levels |-> [v \in 1 .. variable_num |-> NoLevel],
   reasons |-> [v \in 1 .. variable_num |-> NoReason],
   watchers |-> [l \in 1 .. 2 * variable_num |-> <<>>],
   clauses |-> <<>>, learnts |-> <<>>,
   que |-> <<>>, que_head |-> 0, fault |-> "none"]

\* ----------------------------------------------------------- assignment
\* Solver::eval
eval(s, lit) ==
  IF s.levels[vidx(lit) + 1] = NoLevel THEN "Undefine"
  ELSE IF neg(lit)
       THEN (IF s.assings[vidx(lit) + 1] THEN "False" ELSE "True")
       ELSE (IF s.assings[vidx(lit) + 1] THEN "True" ELSE "False")

\* Solver::decision_level
decision_level(s) ==
  IF s.que = <<>> THEN 0
  ELSE LET l == s.que[Len(s.que)]
       IN IF s.levels[vidx(l) + 1] = NoLevel THEN 0 ELSE s.levels[vidx(l) + 1]

\* Solver::enqueue.  levels[lit.vidx()] on a variable without a slot is an
\* access past the end of the vector.
enqueue(s, lit, reason) ==
  IF s.fault # "none" THEN s
  ELSE IF vidx(lit) >= Len(s.assings) THEN Fault(s, "ub")
  ELSE IF ~ndebug /\ s.levels[vidx(lit) + 1] # NoLevel THEN Fault(s, "abort")
  ELSE [s EXCEPT !.levels[vidx(lit) + 1] = decision_level(s),
                 !.assings[vidx(lit) + 1] = pos(lit),
                 !.reasons[vidx(lit) + 1] = reason,
                 !.que = Append(@, lit)]

\* a new_decision that leaves the level at the one enqueue has set
new_decision_without_increment(s, lit, reason) ==
  enqueue(s, lit, reason)

\* Solver::new_decision
new_decision(s, lit, reason) ==
  LET e == enqueue(s, lit, reason)
  IN IF e.fault # "none" THEN e
     ELSE [e EXCEPT !.levels[vidx(lit) + 1] = @ + 1]

\* the while loop of pop_queue_until
RECURSIVE pop_loop(_, _)
pop_loop(s, until_level) ==
  IF s.que = <<>> THEN s
  ELSE LET lit == s.que[Len(s.que)]
       IN IF s.levels[vidx(lit) + 1] > until_level
          THEN pop_loop([s EXCEPT !.reasons[vidx(lit) + 1] = NoReason,
                                  !.levels[vidx(lit) + 1] = NoLevel,
                                  !.que = SubSeq(@, 1, Len(@) - 1)],
                        until_level)
          ELSE s

\* a pop_queue_until that leaves the literals of level until_level + 1 on
\* the trail
pop_queue_until_keeps_next(s, until_level) ==
  IF s.fault # "none" THEN s
  ELSE IF ~ndebug /\ s.que = <<>> THEN Fault(s, "abort")
  ELSE LET p == pop_loop(s, until_level + 1)
       IN [p EXCEPT !.que_head = IF Len(p.que) > 0 THEN Len(p.que) - 1 ELSE 0]

\* Solver::pop_queue_until
pop_queue_until(s, until_level) ==
  IF s.fault # "none" THEN s
  ELSE IF ~ndebug /\ s.que = <<>> THEN Fault(s, "abort")
  ELSE LET p == pop_loop(s, until_level)
       IN [p EXCEPT !.que_head = IF Len(p.que) > 0 THEN Len(p.que) - 1 ELSE 0]

\* ------------------------------------------------------ clause database
\* Solver::new_var
new_var(s) ==
  [s EXCEPT !.watchers = Append(Append(@, <<>>), <<>>),
            !.assings = Append(@, FALSE),
            !.reasons = Append(@, NoReason),
            !.levels = Append(@, NoLevel)]

\* an attach_clause that registers the clause under its first literal only
attach_clause_one_watch(s, clause, learnt) ==
  IF s.fault # "none" THEN s
  ELSE IF ~ndebug /\ ~(Len(clause) > 1) THEN Fault(s, "abort")
  ELSE IF Len(clause) < 2 THEN Fault(s, "ub")
  ELSE IF lidx(Not(clause[1])) >= Len(s.watchers)
          \/ lidx(Not(clause[2])) >= Len(s.watchers) THEN Fault(s, "ub")
  ELSE LET cr == Len(s.clauses) + 1
       IN [s EXCEPT !.watchers[lidx(Not(clause[1])) + 1] = Append(@, cr),
                    !.clauses = Append(@, clause),
                    !.learnts = IF learnt THEN Append(@, cr) ELSE @]

\* Solver::attach_clause; cr is the clause object made by make_shared.
\* With assert compiled out, clause[0] / clause[1] of a shorter clause and
\* watchers[...] of a literal without a slot are accesses outside a vector.
attach_clause(s, clause, learnt) ==
  IF s.fault # "none" THEN s
  ELSE IF ~ndebug /\ ~(Len(clause) > 1) THEN Fault(s, "abort")
  ELSE IF Len(clause) < 2 THEN Fault(s, "ub")
  ELSE IF lidx(Not(clause[1])) >= Len(s.watchers)
          \/ lidx(Not(clause[2])) >= Len(s.watchers) THEN Fault(s, "ub")
  ELSE LET cr == Len(s.clauses) + 1
           w1 == [s.watchers EXCEPT ![lidx(Not(clause[1])) + 1] = Append(@, cr)]
           w2 == [w1 EXCEPT ![lidx(Not(clause[2])) + 1] = Append(@, cr)]
       IN [s EXCEPT !.watchers = w2,
                    !.clauses = Append(@, clause),
                    !.learnts = IF learnt THEN Append(@, cr) ELSE @]

\* the for_each of add_clause: one new_var per literal whose variable has
\* no slot at the time the literal is visited
RECURSIVE grow(_, _, _)
grow(s, clause, k) ==
  IF k > Len(clause) THEN s
  ELSE grow(IF vidx(clause[k]) >= Len(s.assings) THEN new_var(s) ELSE s,
            clause, k + 1)

\* Solver::add_clause
add_clause(s, clause) ==
  LET g == grow(s, clause, 1)
  IN IF Len(clause) = 1 THEN enqueue(g, clause[1], NoReason)
     ELSE attach_clause(g, clause, FALSE)

\* ----------------------------------------------------------- propagate
\* the for loop over k of propagate: the first position k >= 2 (0-based)
\* whose literal does not evaluate to False; 0 when there is none.  Reading
\* levels[] of a literal whose variable has no slot is undefined: -1.
RECURSIVE new_watch(_, _, _)
new_watch(s, clause, k) ==
  IF k >= Len(clause) THEN 0
  ELSE IF vidx(clause[k + 1]) >= Len(s.levels) THEN -1
  ELSE IF eval(s, clause[k + 1]) # "False" THEN k
  ELSE new_watch(s, clause, k + 1)

\* a propagate that returns the conflict without moving que_head to the
\* end of the trail
conflict_return_keeps_que_head(s, cr) ==
  [st |-> s, conflict |-> cr]

\* propagate: all literals are false
conflict_return(s, cr) ==
  [st |-> [s EXCEPT !.que_head = Len(s.que)], conflict |-> cr]

\* the for loop of propagate over watcher = watchers[lit.lidx()], from
\* index i on.  `visited` holds the configurations the loop has been in:
\* the loop is deterministic, so coming back to one means it never ends.
RECURSIVE watch_loop(_, _, _, _)
watch_loop(s, lit, i, visited) ==
  LET watcher == s.watchers[lidx(lit) + 1]
  IN IF s.fault # "none" \/ i >= Len(watcher)
     THEN [st |-> s, conflict |-> NoReason]
     ELSE IF <<s.watchers, s.clauses, i>> \in visited
     THEN [st |-> Fault(s, "hang"), conflict |-> NoReason]
     ELSE
       LET cr == watcher[i + 1]
           nlit == Not(lit)
           c0 == s.clauses[cr]
           watched == c0[1] = nlit \/ c0[2] = nlit
           c1 == IF c0[1] = nlit THEN swap(c0, 1, 2) ELSE c0
           s1 == [s EXCEPT !.clauses[cr] = c1]
           first == c1[1]
           k == new_watch(s1, c1, 2)
           seen1 == visited \cup {<<s.watchers, s.clauses, i>>}
       IN IF ~ndebug /\ ~watched
          THEN [st |-> Fault(s, "abort"), conflict |-> NoReason]
          ELSE IF ~ndebug /\ ~(c1[2] = nlit /\ eval(s1, c1[2]) = "False")
          THEN [st |-> Fault(s1, "abort"), conflict |-> NoReason]
          ELSE IF eval(s1, first) = "True"
          THEN watch_loop(s1, lit, i + 1, seen1)
          ELSE IF k = -1
          THEN [st |-> Fault(s1, "ub"), conflict |-> NoReason]
          ELSE IF k > 0
          THEN \* found a new literal to watch
            LET c2 == swap(c1, 2, k + 1)
                moved == SubSeq([watcher EXCEPT ![i + 1] = watcher[Len(watcher)]],
                                1, Len(watcher) - 1)
                w1 == [s1.watchers EXCEPT ![lidx(lit) + 1] = moved]
                w2 == [w1 EXCEPT ![lidx(Not(c2[2])) + 1] = Append(@, cr)]
            IN watch_loop([s1 EXCEPT !.clauses[cr] = c2, !.watchers = w2],
                          lit, i, seen1)
          ELSE IF eval(s1, first) = "False"
          THEN conflict_return(s1, cr)
          ELSE \* unit propagation
            watch_loop(enqueue(s1, first, cr), lit, i + 1, seen1)

\* Solver::propagate: the solver after the call and the CRef returned
\* (NoReason for std::nullopt)
RECURSIVE propagate(_)
propagate(s) ==
  IF s.fault = "none" /\ s.que_head < Len(s.que)
  THEN LET lit == s.que[s.que_head + 1]
           r == watch_loop([s EXCEPT !.que_head = @ + 1], lit, 0, {})
       IN IF r.st.fault # "none" \/ r.conflict # NoReason THEN r
          ELSE propagate(r.st)
  ELSE [st |-> s, conflict |-> NoReason]

\* ------------------------------------------------------------- analyze
\* the first loop of analyze, over the literals of the conflicting clause;
\* a is [learnt, counter, checking, fault]
RECURSIVE seed_loop(_, _, _, _, _)
seed_loop(s, clause, k, d, a) ==
  IF k > Len(clause) \/ a.fault # "none" THEN a
  ELSE LET lit == clause[k]
       IN IF ~ndebug /\ eval(s, lit) # "False"
          THEN [a EXCEPT !.fault = "abort"]
          ELSE seed_loop(s, clause, k + 1, d,
                 [a EXCEPT !.checking = @ \cup {var(lit)},
                           !.learnt = IF s.levels[vidx(lit) + 1] < d
                                      THEN Append(@, lit) ELSE @,
                           !.counter = IF s.levels[vidx(lit) + 1] < d
                                       THEN @ ELSE @ + 1])

\* a loop over a reason clause that leaves its literals of lower levels out
\* of the learnt clause
RECURSIVE reason_loop_drops_lower(_, _, _, _, _)
reason_loop_drops_lower(s, clause, j, d, a) ==
  IF j >= Len(clause) THEN a
  ELSE LET clit == clause[j + 1]
       IN IF var(clit) \in a.checking
          THEN reason_loop_drops_lower(s, clause, j + 1, d, a)
          ELSE reason_loop_drops_lower(s, clause, j + 1, d,
                 [a EXCEPT !.checking = @ \cup {var(clit)},
                           !.counter = IF s.levels[vidx(clit) + 1] < d
                                       THEN @ ELSE @ + 1])

\* the loop over the literals clause[1..] of a reason clause
RECURSIVE reason_loop(_, _, _, _, _)
reason_loop(s, clause, j, d, a) ==
  IF j >= Len(clause) THEN a
  ELSE LET clit == clause[j + 1]
       IN IF var(clit) \in a.checking
          THEN reason_loop(s, clause, j + 1, d, a)
          ELSE reason_loop(s, clause, j + 1, d,
                 [a EXCEPT !.checking = @ \cup {var(clit)},
                           !.learnt = IF s.levels[vidx(clit) + 1] < d
                                      THEN Append(@, clit) ELSE @,
                           !.counter = IF s.levels[vidx(clit) + 1] < d
                                       THEN @ ELSE @ + 1])

\* the walk down the trail from index i (0-based).  i is a size_t: i-- at 0
\* wraps, and que[i] is then an access outside the deque.  value() of an
\* empty optional throws std::bad_optional_access, which nothing catches.
RECURSIVE uip_walk(_, _, _, _)
uip_walk(s, i, d, a) ==
  IF i < 0 THEN [a EXCEPT !.fault = "ub"]
  ELSE LET lit == s.que[i + 1]
       IN IF var(lit) \notin a.checking THEN uip_walk(s, i - 1, d, a)
          ELSE IF a.counter - 1 <= 0
          THEN [a EXCEPT !.counter = @ - 1, !.first_uip = lit]
          ELSE IF s.reasons[vidx(lit) + 1] = NoReason
          THEN [a EXCEPT !.fault = "abort"]
          ELSE LET clause == s.clauses[s.reasons[vidx(lit) + 1]]
               IN IF ~ndebug /\ clause[1] # lit
                  THEN [a EXCEPT !.fault = "abort"]
                  ELSE uip_walk(s, i - 1, d,
                         reason_loop(s, clause, 1, d,
                                     [a EXCEPT !.counter = @ - 1]))

\* an analyze that takes the level of learnt_clause[1] for the maximum
max_level_of_first(s, learnt, i) ==
  IF i >= Len(learnt) THEN 0 ELSE s.levels[vidx(learnt[i + 1]) + 1]

\* the last loop of analyze: the maximum level of learnt_clause[1..]
RECURSIVE max_level(_, _, _)
max_level(s, learnt, i) ==
  IF i >= Len(learnt) THEN 0
  ELSE LET rest == max_level(s, learnt, i + 1)
           lv == s.levels[vidx(learnt[i + 1]) + 1]
       IN IF lv > rest THEN lv ELSE rest

\* Solver::analyze: [learnt_clause, back_jump_level, fault]
analyze(s, cr) ==
  LET d == decision_level(s)
      a0 == [learnt |-> <<>>, counter |-> 0, checking |-> {},
             first_uip |-> -1, fault |-> "none"]
      a1 == seed_loop(s, s.clauses[cr], 1, d, a0)
      a2 == IF a1.fault # "none" THEN a1
            ELSE IF ~ndebug /\ ~(a1.counter >= 1)
            THEN [a1 EXCEPT !.fault = "abort"]
            ELSE uip_walk(s, Len(s.que) - 1, d, a1)
      pushed == Append(a2.learnt, Not(a2.first_uip))
      learnt == swap(pushed, 1, Len(pushed))
      unset == \E i \in 2 .. Len(learnt) : s.levels[vidx(learnt[i]) + 1] = NoLevel
  IN IF a2.fault # "none"
     THEN [learnt_clause |-> <<>>, back_jump_level |-> 0, fault |-> a2.fault]
     ELSE IF unset
     THEN [learnt_clause |-> <<>>, back_jump_level |-> 0, fault |-> "abort"]
     ELSE [learnt_clause |-> learnt,
           back_jump_level |-> max_level(s, learnt, 1),
           fault |-> "none"]

\* --------------------------------------------------------------- inputs
\* The caller's input is a variable count for the constructor and a
\* sequence of clauses for add_clause.
\* Exhaustive part: every clause that is empty, unit or binary over the
\* NumVars variables, in every order, duplicate and complementary literals
\* included ...
ClauseInputs ==
  {<<>>} \cup {<<a>> : a \in Lits} \cup {<<a, b>> : a, b \in Lits}
\* ... and every sequence of at most MaxClauses such clauses, for every
\* variable count up to NumVars.
Formulas == UNION {[1 .. m -> ClauseInputs] : m \in 0 .. MaxClauses}
Exhaustive ==
  {[n |-> variable_num, formula |-> f] : variable_num \in 0 .. NumVars,
                                         f \in Formulas}

P(v) == Lit(v, TRUE)
N(v) == Lit(v, FALSE)

\* {x0}, {!x0}
ContradictoryUnits == [n |-> 1, formula |-> <<<<P(0)>>, <<N(0)>>>>]
\* {x0}, {!x0}, {!x0, x1}
UnitsThenBinary ==
  [n |-> 2, formula |-> <<<<P(0)>>, <<N(0)>>, <<N(0), P(1)>>>>]
\* {x0, x1}, {!x0, x1}, {x0, !x1}, {!x0, !x1}
AllBinary ==
  [n |-> 2,
   formula |-> <<<<P(0), P(1)>>, <<N(0), P(1)>>, <<P(0), N(1)>>,
                 <<N(0), N(1)>>>>]
\* {x0, x1}, {!x0, x2}, {!x1, x2}, {!x2}
Chain ==
  [n |-> 3,
   formula |-> <<<<P(0), P(1)>>, <<N(0), P(2)>>, <<N(1), P(2)>>, <<N(2)>>>>]
\* {x0, x1, x2}, {!x0, x1}, {!x1, x2}
Ternary ==
  [n |-> 3,
   formula |-> <<<<P(0), P(1), P(2)>>, <<N(0), P(1)>>, <<N(1), P(2)>>>>]
\* three pigeons in two holes; pigeon i sits in hole h when x(2i+h)
Pigeonhole ==
  [n |-> 6,
   formula |-> <<<<P(0), P(1)>>, <<P(2), P(3)>>, <<P(4), P(5)>>,
                 <<N(0), N(2)>>, <<N(0), N(4)>>, <<N(2), N(4)>>,
                 <<N(1), N(3)>>, <<N(1), N(5)>>, <<N(3), N(5)>>>>]
\* two conflicts, the second of which jumps below a literal of the first
\* learnt clause
TwoJumps ==
  [n |-> 6,
   formula |-> <<<<P(0), P(5)>>, <<P(2), P(4), P(0)>>, <<P(2), N(4), P(1)>>,
                 <<P(3), P(4)>>, <<P(3), N(4), P(0)>>>>]

\* the runs short enough to let a caller interleave the methods freely
Scenarios == {ContradictoryUnits, UnitsThenBinary, AllBinary, Chain, Ternary}
\* the runs of solve() with several conflicts
LongScenarios == {Pigeonhole, TwoJumps}

Inputs == Exhaustive \cup Scenarios \cup LongScenarios

\* ---------------------------------------------------------------- steps
\* the literals a call has pushed on the trail
Pushes(s) ==
  IF Len(s.que) > Len(que) THEN SubSeq(s.que, Len(que) + 1, Len(s.que))
  ELSE <<>>

\* held, after the literals of lits were pushed in their order
RECURSIVE Hold(_, _)
Hold(h, lits) ==
  IF lits = <<>> THEN h
  ELSE Hold((h \ {Head(lits), Not(Head(lits))}) \cup {Head(lits)}, Tail(lits))

\* the data members after a call, and the histories of the trail: what the
\* call pushed is marked by_decision when the call was new_decision
StoreAs(s, by_decision) ==
  /\ assings' = s.assings
  /\ levels' = s.levels
  /\ reasons' = s.reasons
  /\ watchers' = s.watchers
  /\ clauses' = s.clauses
  /\ learnts' = s.learnts
  /\ que' = s.que
  /\ que_head' = s.que_head
  /\ decided' = IF Len(s.que) <= Len(que) THEN SubSeq(decided, 1, Len(s.que))
                ELSE decided \o [i \in 1 .. Len(Pushes(s)) |-> by_decision]
  /\ held' = Hold(held, Pushes(s))

Store(s) == StoreAs(s, FALSE)

histories == <<decided, held>>
solver == <<assings, levels, reasons, watchers, clauses, learnts, que, que_head>>
locals == <<conflict, learnt_clause, back_jump_level>>

\* where control is after a call: at `normal` when the call returned
After(fault, normal) == IF fault = "none" THEN normal ELSE fault

\* `saved` is [stage, s]: s is the Solver before the new_decision that
\* was just made ("decided") and then undone to the level it was made at
\* ("undone"), or the Solver before the second of two calls of propagate in
\* a row ("again"); NoSnapshot when there is nothing to compare with
NoSnapshot == [stage |-> "none", s |-> Solver(0)]

StartWith(variable_num, formula) ==
  /\ todo = formula
  /\ added = <<>>
  /\ assings = Solver(variable_num).assings
  /\ levels = Solver(variable_num).levels
  /\ reasons = Solver(variable_num).reasons
  /\ watchers = Solver(variable_num).watchers
  /\ clauses = Solver(variable_num).clauses
  /\ learnts = Solver(variable_num).learnts
  /\ que = Solver(variable_num).que
  /\ que_head = Solver(variable_num).que_head
  /\ decided = <<>>
  /\ held = {}
  /\ pc = "build"
  /\ call = "Solver"
  /\ saved = NoSnapshot
  /\ result = "none"
  /\ conflict = NoReason
  /\ learnt_clause = <<>>
  /\ back_jump_level = 0

\* Solver s(variable_num), for a caller that holds a formula to hand over
Init ==
  /\ ndebug \in BOOLEAN
  /\ \E input \in Inputs : StartWith(input.n, input.formula)

\* the caller: s.add_clause(clause) for the next clause of its formula
AddClause ==
  /\ pc = "build" /\ todo # <<>>
  /\ LET s == add_clause(Self, Head(todo))
     IN Store(s) /\ pc' = After(s.fault, "build")
  /\ call' = "add_clause"
  /\ added' = Append(added, Head(todo))
  /\ todo' = Tail(todo)
  /\ UNCHANGED <<ndebug, saved, result, locals>>

\* the caller: s.solve(), once the formula is handed over
CallSolve ==
  /\ pc = "build" /\ todo = <<>>
  /\ pc' = "solve"
  /\ call' = "solve"
  /\ UNCHANGED <<ndebug, todo, added, solver, histories, saved, result, locals>>

\* solve(): std::optional<CRef> conflict = propagate()
Propagate ==
  /\ pc = "solve"
  /\ LET r == propagate(Self)
     IN Store(r.st) /\ conflict' = r.conflict
        /\ pc' = After(r.st.fault, "propagated")
  /\ UNCHANGED <<ndebug, todo, added, call, saved, result, learnt_clause,
                 back_jump_level>>

\* a solve() that gives up at a conflict whatever the decision level
ReturnUnsatAtAnyLevel ==
  /\ pc = "propagated" /\ conflict # NoReason
  /\ result' = "Unsat" /\ pc' = "done"
  /\ UNCHANGED <<ndebug, todo, added, solver, histories, call, saved, locals>>

\* solve(): a conflict at decision level 0
ReturnUnsat ==
  /\ pc = "propagated" /\ conflict # NoReason /\ decision_level(Self) = 0
  /\ result' = "Unsat" /\ pc' = "done"
  /\ UNCHANGED <<ndebug, todo, added, solver, histories, call, saved, locals>>

\* solve(): auto [learnt_clause, back_jump_level] = analyze(conflict.value())
Analyze ==
  /\ pc = "propagated" /\ conflict # NoReason /\ decision_level(Self) # 0
  /\ LET a == analyze(Self, conflict)
     IN /\ learnt_clause' = a.learnt_clause
        /\ back_jump_level' = a.back_jump_level
        /\ pc' = After(a.fault, "analyzed")
  /\ UNCHANGED <<ndebug, todo, added, solver, histories, call, saved, result, conflict>>

\* solve(): pop_queue_until(back_jump_level)
Backjump ==
  /\ pc = "analyzed"
  /\ LET s == pop_queue_until(Self, back_jump_level)
     IN Store(s) /\ pc' = After(s.fault, "backjumped")
  /\ UNCHANGED <<ndebug, todo, added, call, saved, result, locals>>

\* solve(): the learnt clause is asserted, and attached unless it is unit
install(s, learnt) ==
  IF Len(learnt) = 1 THEN enqueue(s, learnt[1], NoReason)
  ELSE enqueue(attach_clause(s, learnt, TRUE), learnt[1], Len(s.clauses) + 1)

Learn ==
  /\ pc = "backjumped"
  /\ LET s == install(Self, learnt_clause)
     IN Store(s) /\ pc' = After(s.fault, "solve")
  /\ UNCHANGED <<ndebug, todo, added, call, saved, result, locals>>

\* solve(): the variables without a level
Unassigned(s) == {v \in 0 .. Len(s.assings) - 1 : s.levels[v + 1] = NoLevel}
\* a choice of the first such variable that always tries False first
next_decision_always_false(s) ==
  LET v == CHOOSE u \in Unassigned(s) : \A w \in Unassigned(s) : u <= w
  IN Lit(v, FALSE)

\* solve(): the literal of the first such variable, with the polarity
\* stored in assings
next_decision(s) ==
  LET v == CHOOSE u \in Unassigned(s) : \A w \in Unassigned(s) : u <= w
  IN Lit(v, s.assings[v + 1])

Decide ==
  /\ pc = "propagated" /\ conflict = NoReason /\ Unassigned(Self) # {}
  /\ LET s == new_decision(Self, next_decision(Self), NoReason)
     IN StoreAs(s, TRUE) /\ pc' = After(s.fault, "solve")
  /\ UNCHANGED <<ndebug, todo, added, call, saved, result, locals>>

ReturnSat ==
  /\ pc = "propagated" /\ conflict = NoReason /\ Unassigned(Self) = {}
  /\ result' = "Sat" /\ pc' = "done"
  /\ UNCHANGED <<ndebug, todo, added, solver, histories, call, saved, locals>>

\* After an access outside a container the behaviour of the program is
\* undefined: the call the caller is waiting for may return any Status
\* ("ub_done"), the process may die, or the call may never come back.
Undefined ==
  /\ pc = "ub"
  /\ \E outcome \in {"Sat", "Unsat", "Unknown", "abort", "hang"} :
       IF outcome \in {"abort", "hang"}
       THEN pc' = outcome /\ result' = result
       ELSE pc' = "ub_done" /\ result' = outcome
  /\ UNCHANGED <<ndebug, todo, added, solver, histories, call, saved, locals>>

Next ==
  \/ AddClause
  \/ CallSolve
  \/ Propagate
  \/ ReturnUnsat
  \/ Analyze
  \/ Backjump
  \/ Learn
  \/ Decide
  \/ ReturnSat
  \/ Undefined

Spec == Init /\ [][Next]_vars

\* The program is one thread, which runs as long as it has a step to take.
\* At every control point of Running one of the actions of Next is enabled,
\* and none of them is enabled anywhere else; every step of solve() and of
\* Undefined moves pc, and add_clause can leave pc at "build" only as many
\* times as there are clauses to hand over.  Fairness is therefore stated
\* on the advance of pc.
Control ==
  {"build", "solve", "propagated", "analyzed", "backjumped", "done", "abort",
   "ub", "ub_done", "hang"}
Running ==
  pc \in {"build", "solve", "propagated", "analyzed", "backjumped", "ub"}
Advance == Running /\ pc' \in Control \ {pc}

FairSpec == Spec /\ WF_pc(Advance)

\* ------------------------------------------------- the methods, one by one
\* The member functions of Solver are public.  A caller that has handed its
\* formula over may call propagate, new_decision and pop_queue_until itself,
\* in any order; pc stays at "build" between its calls.

\* the caller: s.propagate()
ApiPropagate ==
  /\ pc = "build" /\ todo = <<>>
  /\ LET r == propagate(Self)
     IN Store(r.st) /\ conflict' = r.conflict
        /\ pc' = After(r.st.fault, "build")
  /\ call' = "propagate"
  /\ saved' = IF call = "propagate" THEN [stage |-> "again", s |-> Self]
              ELSE NoSnapshot
  /\ UNCHANGED <<ndebug, todo, added, result, learnt_clause, back_jump_level>>

\* the caller: s.new_decision(lit) when the propagate before it returned no
\* conflict, for the variable solve() would decide, with either polarity
ApiDecide ==
  /\ pc = "build" /\ todo = <<>>
  /\ call = "propagate" /\ conflict = NoReason
  /\ Unassigned(Self) # {}
  /\ \E positive \in BOOLEAN :
       LET s == new_decision(Self, Lit(var(next_decision(Self)), positive),
                             NoReason)
       IN StoreAs(s, TRUE) /\ pc' = After(s.fault, "build")
  /\ call' = "new_decision"
  /\ saved' = [stage |-> "decided", s |-> Self]
  /\ UNCHANGED <<ndebug, todo, added, result, locals>>

\* the caller: s.pop_queue_until(until_level)
ApiUndo ==
  /\ pc = "build" /\ todo = <<>>
  /\ \E until_level \in 0 .. decision_level(Self) :
       /\ LET s == pop_queue_until(Self, until_level)
          IN Store(s) /\ pc' = After(s.fault, "build")
       /\ saved' = IF saved.stage = "decided"
                      /\ until_level = decision_level(saved.s)
                   THEN [saved EXCEPT !.stage = "undone"]
                   ELSE NoSnapshot
  /\ call' = "pop_queue_until"
  /\ UNCHANGED <<ndebug, todo, added, result, locals>>

NextApi ==
  \/ AddClause
  \/ ApiPropagate
  \/ ApiDecide
  \/ ApiUndo
  \/ Undefined

InitApi ==
  /\ ndebug \in BOOLEAN
  /\ \E input \in Exhaustive \cup Scenarios :
       StartWith(input.n, input.formula)

SpecApi == InitApi /\ [][NextApi]_vars

\* -------------------------------------------------------- properties
\* the variables a formula mentions
Mentioned(f) == UNION {{var(f[i][k]) : k \in 1 .. Len(f[i])} : i \in 1 .. Len(f)}
\* some assignment of them makes a literal of every clause true
Satisfiable(f) ==
  \E a \in [Mentioned(f) -> BOOLEAN] :
    \A i \in 1 .. Len(f) : \E k \in 1 .. Len(f[i]) : a[var(f[i][k])] = pos(f[i][k])

\* the value of a literal in the current state of the solver; a literal
\* whose variable has no slot has no value
value(lit) ==
  IF vidx(lit) < Len(levels) /\ vidx(lit) < Len(assings)
  THEN eval(Self, lit) ELSE "Undefine"

\* control has left the program: it died, hangs or ran into undefined
\* behaviour
Lost == pc \in {"abort", "hang", "ub", "ub_done"}

\* C1: whenever solve() returns Sat, every variable is assigned and every
\* clause that was passed to add_clause, unit clauses included, has a
\* literal that evaluates to True under assings.
SatGivesModel ==
  (pc = "done" /\ result = "Sat") =>
    /\ \A v \in 1 .. Len(levels) : levels[v] # NoLevel
    /\ \A i \in 1 .. Len(added) :
         \E k \in 1 .. Len(added[i]) : value(added[i][k]) = "True"

\* C2: whenever solve() returns Unsat, no assignment of the variables
\* satisfies all the clauses that were passed to add_clause.  (A return
\* from a run that went through undefined behaviour ends at "ub_done"; how
\* a run gets there is the matter of C5 and C6.)
UnsatIsSound ==
  (pc = "done" /\ result = "Unsat") => ~Satisfiable(added)

\* solve() returned Unsat after it analysed a conflict above level 0
UnsatAfterConflictAnalysis ==
  pc = "done" /\ result = "Unsat" /\ learnt_clause # <<>>

\* C3: once the formula is handed over and solve() is called, solve()
\* eventually returns, and what it returns is Sat or Unsat.
SolveReturns ==
  (call = "solve") ~> (pc = "done" /\ result \in {"Sat", "Unsat"})

\* the formula holds a unit clause and the unit clause of its negation
ContradictoryUnitsIn(f) ==
  \E i, j \in 1 .. Len(f) :
    Len(f[i]) = 1 /\ Len(f[j]) = 1 /\ f[j][1] = Not(f[i][1])

\* C4: a formula with the unit clauses {l} and {~l} is handed over without
\* the program failing, and solve() reports it Unsat.
ContradictoryUnitsUnsat ==
  ContradictoryUnitsIn(added) =>
    /\ ~Lost
    /\ pc = "done" => result = "Unsat"

\* C5: add_clause accepts the empty clause, and solve() then returns Unsat.
EmptyClauseUnsat ==
  (\E i \in 1 .. Len(added) : added[i] = <<>>) =>
    /\ ~Lost
    /\ pc = "done" => result = "Unsat"

\* C6: after add_clause(C) every literal of C indexes existing per-variable
\* storage (assings, levels, reasons) and per-literal storage (watchers).
SlotsCoverClause ==
  call = "add_clause" =>
    \A k \in 1 .. Len(added[Len(added)]) :
      LET lit == added[Len(added)][k]
      IN /\ vidx(lit) < Len(assings)
         /\ vidx(lit) < Len(levels)
         /\ vidx(lit) < Len(reasons)
         /\ lidx(lit) < Len(watchers)

\* C7: after pop_queue_until the propagation cursor equals the new trail
\* length.
CursorAtTrailLength ==
  pc = "backjumped" => que_head = Len(que)

\* C8: deciding a literal at a propagation fixed point and undoing to the
\* level the decision was made at restores the trail, the value, level and
\* reason of every variable, and the propagation cursor.
RoundTrip ==
  (saved.stage = "undone" /\ pc = "build") =>
    /\ que = saved.s.que
    /\ \A v \in 0 .. Len(assings) - 1 :
         value(Lit(v, TRUE)) = eval(saved.s, Lit(v, TRUE))
    /\ levels = saved.s.levels
    /\ reasons = saved.s.reasons
    /\ que_head = saved.s.que_head

\* C9: a second propagate() with no other call in between returns and
\* changes nothing: trail, cursor, assignment, levels, reasons, watcher
\* lists and the order of the literals in the clauses are as before it.
PropagateTwice ==
  saved.stage = "again" => (pc = "build" /\ Self = saved.s)

\* propagate was called twice in a row on a trail that holds a literal the
\* first call had to go through a clause for
PropagatedAgain ==
  /\ saved.stage = "again"
  /\ \E v \in 1 .. Len(reasons) : reasons[v] # NoReason

\* all the literals of the clause are False
Falsified(clause) == \A k \in 1 .. Len(clause) : value(clause[k]) = "False"
\* exactly one literal of the clause is Undefine and all the others False
Unit(clause) ==
  \E k \in 1 .. Len(clause) :
    /\ value(clause[k]) = "Undefine"
    /\ \A j \in 1 .. Len(clause) : j # k => value(clause[j]) = "False"

\* C10: whenever propagate() returns no conflict, no stored clause is
\* falsified or unit under the current assignment.
NoUnitOrFalsifiedClause ==
  (pc = "propagated" /\ conflict = NoReason) =>
    \A cr \in 1 .. Len(clauses) :
      ~Falsified(clauses[cr]) /\ ~Unit(clauses[cr])

\* how many times x occurs in seq
Count(seq, x) == Cardinality({i \in 1 .. Len(seq) : seq[i] = x})
\* the same literals, each as many times
SameLiterals(c, d) ==
  Len(c) = Len(d) /\ \A l \in Lits : Count(c, l) = Count(d, l)

\* C11: between operations every stored clause C is in the watcher index
\* exactly twice, once in the list of ~C[0] and once in the list of ~C[1],
\* and in no other list.
WatchConsistency ==
  ~Lost =>
    \A cr \in 1 .. Len(clauses) : \A l \in 0 .. Len(watchers) - 1 :
      Count(watchers[l + 1], cr) =
        (IF l = lidx(Not(clauses[cr][1])) THEN 1 ELSE 0)
        + (IF l = lidx(Not(clauses[cr][2])) THEN 1 ELSE 0)

\* propagate has returned after it moved a watch of a clause that was
\* passed to add_clause: its third literal is now in a watched position
WatchMoved ==
  /\ pc = "propagated"
  /\ \E cr \in 1 .. Len(clauses) : \E i \in 1 .. Len(added) :
       /\ Len(added[i]) >= 3
       /\ SameLiterals(clauses[cr], added[i])
       /\ clauses[cr][2] = added[i][3]

\* solve() has just attached the learnt clause of the last conflict and
\* enqueued its first literal with the clause as the reason
JustLearnt ==
  /\ pc = "solve"
  /\ Len(learnt_clause) >= 2
  /\ clauses # <<>> /\ clauses[Len(clauses)] = learnt_clause
  /\ que # <<>> /\ que[Len(que)] = learnt_clause[1]
  /\ reasons[vidx(learnt_clause[1]) + 1] = Len(clauses)

\* C12: when solve() attaches a learnt clause L of size >= 2 after the
\* backjump to level b, the watched positions hold the asserting literal
\* L[0] and, at L[1], a literal of level b, the maximum level among the
\* other literals of L.
LearntWatchesMaxLevel ==
  JustLearnt =>
    LET L == clauses[Len(clauses)]
    IN /\ Count(watchers[lidx(Not(L[1])) + 1], Len(clauses)) >= 1
       /\ Count(watchers[lidx(Not(L[2])) + 1], Len(clauses)) >= 1
       /\ levels[vidx(L[2]) + 1] = back_jump_level
       /\ \A k \in 2 .. Len(L) : levels[vidx(L[k]) + 1] <= back_jump_level

\* C13: when analyze returns (L, b) for a conflict at decision level d > 0
\* in solve(), 0 <= b < d, L[0] is the negation of a trail literal of level
\* d and b is the maximum level of L[1..] (0 if L is unit); after
\* pop_queue_until(b), L[0] is Undefine and every other literal of L is
\* False.
AnalyzePostcondition ==
  LET L == learnt_clause
      b == back_jump_level
  IN /\ pc = "analyzed" =>
          /\ Len(L) >= 1
          /\ 0 <= b /\ b < decision_level(Self)
          /\ \E i \in 1 .. Len(que) :
               /\ que[i] = Not(L[1])
               /\ levels[vidx(que[i]) + 1] = decision_level(Self)
          /\ \A k \in 2 .. Len(L) : levels[vidx(L[k]) + 1] <= b
          /\ Len(L) >= 2 => \E k \in 2 .. Len(L) : levels[vidx(L[k]) + 1] = b
          /\ Len(L) = 1 => b = 0
     /\ pc = "backjumped" =>
          /\ value(L[1]) = "Undefine"
          /\ \A k \in 2 .. Len(L) : value(L[k]) = "False"

\* solve() has jumped back to a level above 0 with a learnt clause of
\* several literals
BackjumpedAboveZero ==
  pc = "backjumped" /\ Len(learnt_clause) >= 2 /\ back_jump_level > 0

\* every assignment of the variables of f and c that satisfies every clause
\* of f satisfies c
Implied(f, c) ==
  LET vs == Mentioned(f) \cup {var(c[k]) : k \in 1 .. Len(c)}
  IN \A a \in [vs -> BOOLEAN] :
       (\A i \in 1 .. Len(f) : \E k \in 1 .. Len(f[i]) : a[var(f[i][k])] = pos(f[i][k]))
         => \E k \in 1 .. Len(c) : a[var(c[k])] = pos(c[k])

\* C14: every learnt clause that analyze returns during solve() is implied
\* by the clauses that were passed to add_clause: every total assignment
\* that satisfies all of them satisfies the learnt clause.
LearntImplied ==
  pc = "analyzed" => Implied(added, learnt_clause)

\* analyze returned a clause that resolves on a reason clause, from a
\* formula that has a model
LearntFromReasons ==
  /\ pc = "analyzed" /\ Len(learnt_clause) >= 2 /\ Satisfiable(added)
  /\ \A i \in 1 .. Len(added) : ~SameLiterals(added[i], learnt_clause)

\* C15: in every reachable state, for every assigned variable whose reason
\* is a clause R and whose trail literal is l, R[0] = l, every other
\* literal of R evaluates to False and its variable was put on the trail
\* before l.
ReasonShape ==
  ~Lost =>
    \A i \in 1 .. Len(que) :
      LET l == que[i]
          r == reasons[vidx(l) + 1]
      IN (levels[vidx(l) + 1] # NoLevel /\ r # NoReason) =>
           /\ clauses[r][1] = l
           /\ \A k \in 2 .. Len(clauses[r]) :
                /\ value(clauses[r][k]) = "False"
                /\ \E j \in 1 .. i - 1 : var(que[j]) = var(clauses[r][k])

\* C16: after solve() has executed pop_queue_until(b) on a backjump,
\* decision_level(), which is read from the level of the last literal of
\* the trail, equals b, and every variable that is still assigned has a
\* level of at most b.
LevelAfterBackjump ==
  pc = "backjumped" =>
    /\ decision_level(Self) = back_jump_level
    /\ \A v \in 1 .. Len(levels) :
         levels[v] # NoLevel => levels[v] <= back_jump_level

\* the backjump took literals off the trail and left literals of the level
\* b > 0 it went back to
BackjumpedKeepsLevel ==
  /\ pc = "backjumped" /\ back_jump_level > 0
  /\ \E v \in 1 .. Len(levels) : levels[v] = back_jump_level
  /\ \E v \in 1 .. Len(levels) : levels[v] = NoLevel

\* the level recorded for the literal at position i of the trail
level_at(i) == levels[vidx(que[i]) + 1]

\* C17: in every reachable state, the recorded level of each trail literal
\* equals the number of literals pushed by new_decision at or before its
\* position; consequently levels are non-decreasing along the trail.
LevelCountsDecisions ==
  ~Lost =>
    /\ \A i \in 1 .. Len(que) :
         level_at(i) = Cardinality({j \in 1 .. i : decided[j]})
    /\ \A i, j \in 1 .. Len(que) : i <= j => level_at(i) <= level_at(j)

\* the trail holds two decisions, a literal pushed by propagate and the
\* literal of a learnt clause
TrailOfAllKinds ==
  /\ ~Lost
  /\ Cardinality({j \in 1 .. Len(que) : decided[j]}) >= 2
  /\ \E i \in 1 .. Len(que) :
       /\ reasons[vidx(que[i]) + 1] # NoReason
       /\ \E n \in 1 .. Len(learnts) : learnts[n] = reasons[vidx(que[i]) + 1]
  /\ \E i \in 1 .. Len(que) :
       /\ reasons[vidx(que[i]) + 1] # NoReason
       /\ \A n \in 1 .. Len(learnts) : learnts[n] # reasons[vidx(que[i]) + 1]

\* C18: in every state reachable through add_clause and solve(), no
\* variable occurs more than once on the trail, and a variable is on the
\* trail exactly when it has a level (is assigned).
TrailUniqueness ==
  ~Lost =>
    /\ \A i, j \in 1 .. Len(que) : var(que[i]) = var(que[j]) => i = j
    /\ \A v \in 0 .. Len(levels) - 1 :
         (\E i \in 1 .. Len(que) : var(que[i]) = v) <=> levels[v + 1] # NoLevel

\* C19: inside solve(), every clause that propagate returns as a conflict
\* has all its literals False and at least one literal at the current
\* decision level, and the call of analyze on it returns: no assertion of
\* analyze fails, every literal it resolves on has a reason clause whose
\* position 0 is that literal, and the walk stays on the trail.
AnalyzePreconditions ==
  (pc = "propagated" /\ conflict # NoReason /\ decision_level(Self) # 0) =>
    /\ \A k \in 1 .. Len(clauses[conflict]) :
         value(clauses[conflict][k]) = "False"
    /\ \E k \in 1 .. Len(clauses[conflict]) :
         levels[vidx(clauses[conflict][k]) + 1] = decision_level(Self)
    /\ analyze(Self, conflict).fault = "none"

\* a step in which new_decision pushes a literal
Decides == Len(que') = Len(que) + 1 /\ decided'[Len(que')]

\* the literal pushed is of the lowest variable that had no level, and is
\* positive iff the literal that variable held last was
FollowsDecisionRule ==
  LET lit == que'[Len(que')]
  IN /\ levels[vidx(lit) + 1] = NoLevel
     /\ \A v \in 0 .. Len(levels) - 1 : levels[v + 1] = NoLevel => var(lit) <= v
     /\ pos(lit) <=> Lit(var(lit), TRUE) \in held

\* C20: whenever solve() decides, it picks the lowest-indexed unassigned
\* variable and assigns it the truth value that variable held most
\* recently, False if it was never assigned; and a formula with no clauses
\* over n variables yields Sat with the all-False model.
DecisionRule ==
  /\ [][Decides => FollowsDecisionRule]_vars
  /\ [](pc = "done" /\ added = <<>> =>
          /\ result = "Sat"
          /\ \A v \in 1 .. Len(assings) : levels[v] # NoLevel /\ ~assings[v])

\* solve() has decided a variable True, the value it had held by a learnt
\* clause before a backjump took it off the trail
DecidedTrue ==
  \E i \in 1 .. Len(que) : decided[i] /\ pos(que[i])

====
